---- MODULE Spec2Model ----
(***************************************************************************)
(* Model of web_app.py: the projection engine                              *)
(* compound_interest_with_monthly_net_rate and its caller                  *)
(* plot_compound_interest_streamlit, which runs the engine twice (once     *)
(* with the fee rate as given, once with the fee rate forced to 0).        *)
(*                                                                         *)
(* Python floats are modelled as fixed-point integers: rates and the       *)
(* employer_match_cap are counted in units of 1/RS, money in cents.  Every *)
(* product is rounded to the nearest unit, as a float product is rounded   *)
(* to the nearest float; sums and differences of fixed-point numbers are   *)
(* exact.                                                                  *)
(***************************************************************************)
EXTENDS Integers, Sequences, FiniteSets, TLC

\* Resolution of rates: a rate r is the integer r * RS.
RS == 10000
\* Largest number of years a run is asked to simulate.
MaxYears == 3
\* range(12) of the monthly loop.
MonthsPerYear == 12

\* Input values, as main() passes them on (rates already divided by 100).
InitialInvestments == {0, 20000}
InterestRates == {0, 700, 2000}
FeeRates == {0, 100, 500}
YearsRange == (0 - 1)..MaxYears
MonthlyContributions == {0, 1000}
Salaries == {0, 46000, 200000}
MatchRates == {0, 500}
MatchCaps == {0, 5000, 10000}
LumpSums == {0, 5000}

Min(a, b) == IF a <= b THEN a ELSE b
Max(a, b) == IF a >= b THEN a ELSE b

\* x * f for a fixed-point factor f, rounded to the nearest unit.  The
\* product is split so that no intermediate exceeds 32 bits; the value is
\* floor((x * f + RS/2) / RS).
Mul(x, f) == (x \div RS) * f + (((x % RS) * f + (RS \div 2)) \div RS)

RECURSIVE Pow(_, _)
Pow(g, n) == IF n = 0 THEN RS ELSE Mul(Pow(g, n - 1), g)

RECURSIVE RootSearch(_, _, _)
RootSearch(a, lo, hi) ==
  IF lo >= hi THEN lo
  ELSE LET mid == (lo + hi + 1) \div 2
       IN IF Pow(mid, MonthsPerYear) <= a
          THEN RootSearch(a, mid, hi)
          ELSE RootSearch(a, lo, mid - 1)

\* a ** (1 / 12): the largest factor whose twelfth power does not exceed a.
Root12(a) == RootSearch(a, 0, Max(a, RS))

MonthlyRate(annual) == Root12(RS + annual) - RS

NetMonthlyRateSignSlip(mir, mfr) == Mul(RS + mir, RS + mfr) - RS
NetMonthlyRate(mir, mfr) == Mul(RS + mir, RS - mfr) - RS

MaxEmployerAnnualMatch(rate, salary) == Mul(salary, rate)

PotentialMatch(contribution, cap) == Mul(contribution, cap)

EmployerMatchUncapped(potential, remaining) == potential
EmployerMatch(potential, remaining) == Min(potential, Max(remaining, 0))

GrowWithFeesMinus(b, tc, net) == Mul(b + tc, RS - net)
GrowWithFees(b, tc, net) == Mul(b + tc, RS + net)

GrowWithoutFeesInterestFirst(b, tc, mir) == Mul(b, RS + mir) + tc
GrowWithoutFees(b, tc, mir) == Mul(b + tc, RS + mir)

SummaryInterestFromNoFee(bwf, bwof, employee, employer) ==
  [total_employee_contributions |-> employee,
   total_employer_contributions |-> employer,
   total_interest_earned |-> bwof - employee - employer,
   total_fees_paid |-> bwof - bwf,
   final_balance |-> bwf,
   final_balance_without_fees |-> bwof]
Summary(bwf, bwof, employee, employer) ==
  [total_employee_contributions |-> employee,
   total_employer_contributions |-> employer,
   total_interest_earned |-> bwf - employee - employer,
   total_fees_paid |-> bwof - bwf,
   final_balance |-> bwf,
   final_balance_without_fees |-> bwof]

NoSummary == Summary(0, 0, 0, 0)

\* The fee rate plot_compound_interest_streamlit passes to its second call.
SecondCallFeeAsGiven(given) == given
SecondCallFee(given) == 0

VARIABLES
  p,                        \* the nine parameters of the comparison
  call,                     \* which of the caller's two engine calls runs
  pc,                       \* position in the engine / the caller
  annual_fee_rate,          \* the engine's annual_fee_rate argument
  monthly_interest_rate,
  monthly_fee_rate,
  net_monthly_rate,
  max_employer_annual_match,
  balance_with_fees,
  balance_without_fees,
  balances,
  total_employer_contrib,
  total_employee_contrib,
  year,
  month,
  employer_match_accum,
  employer_match,
  summary,
  nofee_track,              \* history: balance_without_fees at each year end
  with_fees,
  summary_with_fees,
  first_nofee_track,        \* history: nofee_track of the first call
  without_fees,
  summary_without_fees,
  diff,
  outcome

rates == <<annual_fee_rate, monthly_interest_rate, monthly_fee_rate,
           net_monthly_rate, max_employer_annual_match>>
totals == <<balance_with_fees, balance_without_fees, total_employer_contrib,
            total_employee_contrib>>
loop == <<year, month, employer_match_accum, employer_match>>
caller == <<with_fees, summary_with_fees, first_nofee_track, without_fees,
            summary_without_fees, diff, outcome>>
vars == <<p, call, pc, rates, totals, loop, balances, summary, nofee_track,
          caller>>

Params ==
  [initial_investment : InitialInvestments,
   annual_interest_rate : InterestRates,
   annual_fee_rate : FeeRates,
   years : YearsRange,
   monthly_contribution : MonthlyContributions,
   yearly_salary : Salaries,
   employer_match_rate : MatchRates,
   employer_match_cap : MatchCaps,
   annual_lump_sum : LumpSums]

Init ==
  /\ p \in Params
  /\ call = 1
  /\ pc = "call"
  /\ annual_fee_rate = p.annual_fee_rate
  /\ monthly_interest_rate = 0
  /\ monthly_fee_rate = 0
  /\ net_monthly_rate = 0
  /\ max_employer_annual_match = 0
  /\ balance_with_fees = 0
  /\ balance_without_fees = 0
  /\ balances = <<>>
  /\ total_employer_contrib = 0
  /\ total_employee_contrib = 0
  /\ year = 0
  /\ month = 0
  /\ employer_match_accum = 0
  /\ employer_match = 0
  /\ summary = NoSummary
  /\ nofee_track = <<>>
  /\ with_fees = <<>>
  /\ summary_with_fees = NoSummary
  /\ first_nofee_track = <<>>
  /\ without_fees = <<>>
  /\ summary_without_fees = NoSummary
  /\ diff = 0
  /\ outcome = "running"

\* Lines 16-30: derive the monthly rates and initialise the run.
Enter ==
  /\ pc = "call"
  /\ monthly_interest_rate' = MonthlyRate(p.annual_interest_rate)
  /\ monthly_fee_rate' = MonthlyRate(annual_fee_rate)
  /\ net_monthly_rate' = NetMonthlyRate(monthly_interest_rate', monthly_fee_rate')
  /\ max_employer_annual_match' =
       MaxEmployerAnnualMatch(p.employer_match_rate, p.yearly_salary)
  /\ balance_with_fees' = p.initial_investment
  /\ balance_without_fees' = p.initial_investment
  /\ balances' = <<>>
  /\ nofee_track' = <<>>
  /\ total_employer_contrib' = 0
  /\ total_employee_contrib' = 0
  /\ year' = 0
  /\ pc' = "year"
  /\ UNCHANGED <<p, call, annual_fee_rate, month, employer_match_accum,
                 employer_match, summary, caller>>

\* Lines 32-33: the next year of range(years) starts.
YearStart ==
  /\ pc = "year"
  /\ year < p.years
  /\ employer_match_accum' = 0
  /\ month' = 0
  /\ pc' = "month"
  /\ UNCHANGED <<p, call, rates, totals, year, employer_match, balances,
                 summary, nofee_track, caller>>

\* Lines 35-55: one month.
MonthStepWrongRate ==
  /\ pc = "month"
  /\ month < MonthsPerYear
  /\ LET potential_match ==
           PotentialMatch(p.monthly_contribution, p.employer_match_cap)
         remaining_match == max_employer_annual_match - employer_match_accum
         match == EmployerMatch(potential_match, remaining_match)
         total_contribution == p.monthly_contribution + match
     IN /\ employer_match' = match
        /\ employer_match_accum' = employer_match_accum + match
        /\ balance_with_fees' =
             GrowWithFees(balance_with_fees, total_contribution,
                          monthly_interest_rate)
        /\ balance_without_fees' =
             GrowWithoutFees(balance_without_fees, total_contribution,
                             monthly_interest_rate)
        /\ total_employee_contrib' =
             total_employee_contrib + p.monthly_contribution
        /\ total_employer_contrib' = total_employer_contrib + match
  /\ month' = month + 1
  /\ UNCHANGED <<p, call, pc, rates, year, balances, summary, nofee_track,
                 caller>>
MonthStep ==
  /\ pc = "month"
  /\ month < MonthsPerYear
  /\ LET potential_match ==
           PotentialMatch(p.monthly_contribution, p.employer_match_cap)
         remaining_match == max_employer_annual_match - employer_match_accum
         match == EmployerMatch(potential_match, remaining_match)
         total_contribution == p.monthly_contribution + match
     IN /\ employer_match' = match
        /\ employer_match_accum' = employer_match_accum + match
        /\ balance_with_fees' =
             GrowWithFees(balance_with_fees, total_contribution,
                          net_monthly_rate)
        /\ balance_without_fees' =
             GrowWithoutFees(balance_without_fees, total_contribution,
                             monthly_interest_rate)
        /\ total_employee_contrib' =
             total_employee_contrib + p.monthly_contribution
        /\ total_employer_contrib' = total_employer_contrib + match
  /\ month' = month + 1
  /\ UNCHANGED <<p, call, pc, rates, year, balances, summary, nofee_track,
                 caller>>

\* Lines 57-62: the annual lump sum, then the year's balance is recorded.
YearEndAppendFirst ==
  /\ pc = "month"
  /\ month >= MonthsPerYear
  /\ balances' = Append(balances, balance_with_fees)
  /\ balance_with_fees' = balance_with_fees + p.annual_lump_sum
  /\ balance_without_fees' = balance_without_fees + p.annual_lump_sum
  /\ total_employee_contrib' = total_employee_contrib + p.annual_lump_sum
  /\ nofee_track' = Append(nofee_track, balance_without_fees')
  /\ year' = year + 1
  /\ pc' = "year"
  /\ UNCHANGED <<p, call, rates, total_employer_contrib, month,
                 employer_match_accum, employer_match, summary, caller>>
YearEndLumpNotCounted ==
  /\ pc = "month"
  /\ month >= MonthsPerYear
  /\ balance_with_fees' = balance_with_fees + p.annual_lump_sum
  /\ balance_without_fees' = balance_without_fees + p.annual_lump_sum
  /\ balances' = Append(balances, balance_with_fees')
  /\ nofee_track' = Append(nofee_track, balance_without_fees')
  /\ year' = year + 1
  /\ pc' = "year"
  /\ UNCHANGED <<p, call, rates, total_employer_contrib,
                 total_employee_contrib, month, employer_match_accum,
                 employer_match, summary, caller>>
YearEnd ==
  /\ pc = "month"
  /\ month >= MonthsPerYear
  /\ balance_with_fees' = balance_with_fees + p.annual_lump_sum
  /\ balance_without_fees' = balance_without_fees + p.annual_lump_sum
  /\ total_employee_contrib' = total_employee_contrib + p.annual_lump_sum
  /\ balances' = Append(balances, balance_with_fees')
  /\ nofee_track' = Append(nofee_track, balance_without_fees')
  /\ year' = year + 1
  /\ pc' = "year"
  /\ UNCHANGED <<p, call, rates, total_employer_contrib, month,
                 employer_match_accum, employer_match, summary, caller>>

\* Lines 64-77: range(years) is exhausted (at once when years <= 0); the
\* summary is built and the engine returns (balances, summary).
Finish ==
  /\ pc = "year"
  /\ ~(year < p.years)
  /\ summary' = Summary(balance_with_fees, balance_without_fees,
                        total_employee_contrib, total_employer_contrib)
  /\ pc' = "ret"
  /\ UNCHANGED <<p, call, rates, totals, loop, balances, nofee_track, caller>>

\* Lines 98-119: the caller stores the first result and makes the second
\* call with the fee rate replaced.
SecondCall ==
  /\ pc = "ret"
  /\ call = 1
  /\ with_fees' = balances
  /\ summary_with_fees' = summary
  /\ first_nofee_track' = nofee_track
  /\ call' = 2
  /\ annual_fee_rate' = SecondCallFee(p.annual_fee_rate)
  /\ pc' = "call"
  /\ UNCHANGED <<p, monthly_interest_rate, monthly_fee_rate, net_monthly_rate,
                 max_employer_annual_match, totals, loop, balances, summary,
                 nofee_track, without_fees, summary_without_fees, diff, outcome>>

\* Line 109: the caller stores the second result.
SecondReturn ==
  /\ pc = "ret"
  /\ call = 2
  /\ without_fees' = balances
  /\ summary_without_fees' = summary
  /\ pc' = "plot"
  /\ UNCHANGED <<p, call, rates, totals, loop, balances, summary, nofee_track,
                 with_fees, summary_with_fees, first_nofee_track, diff, outcome>>

\* Lines 121-124: the final balances of both sequences and their difference.
PlotDiff ==
  /\ pc = "plot"
  /\ Len(with_fees) > 0
  /\ Len(without_fees) > 0
  /\ diff' = without_fees[Len(without_fees)] - with_fees[Len(with_fees)]
  /\ outcome' = "plotted"
  /\ pc' = "done"
  /\ UNCHANGED <<p, call, rates, totals, loop, balances, summary, nofee_track,
                 with_fees, summary_with_fees, first_nofee_track, without_fees,
                 summary_without_fees>>

\* Lines 122-123: with_fees[-1] on an empty list raises IndexError.
PlotIndexError ==
  /\ pc = "plot"
  /\ (Len(with_fees) = 0 \/ Len(without_fees) = 0)
  /\ outcome' = "IndexError"
  /\ pc' = "done"
  /\ UNCHANGED <<p, call, rates, totals, loop, balances, summary, nofee_track,
                 with_fees, summary_with_fees, first_nofee_track, without_fees,
                 summary_without_fees, diff>>

Next ==
  \/ Enter
  \/ YearStart
  \/ MonthStep
  \/ YearEnd
  \/ Finish
  \/ SecondCall
  \/ SecondReturn
  \/ PlotDiff
  \/ PlotIndexError

Spec == Init /\ [][Next]_vars

----------------------------------------------------------------------------
\* Derived quantities the properties speak about.

Ceiling == MaxEmployerAnnualMatch(p.employer_match_rate, p.yearly_salary)
Potential == PotentialMatch(p.monthly_contribution, p.employer_match_cap)
Returned == pc \in {"ret", "plot", "done"}
NonDecreasing(s) == \A i \in 1..(Len(s) - 1) : s[i + 1] >= s[i]

\* b multiplied n times by the growth factor 1 + net, nothing added.
RECURSIVE Compound(_, _, _)
Compound(b, net, n) == IF n <= 0 THEN b ELSE Mul(Compound(b, net, n - 1), RS + net)

C2_NoResultForNonPositiveYears ==
  pc = "ret" => p.years >= 1

\* C3: balances has one entry per completed year, in calendar order; the
\* entry of a year is the with-fee balance after its twelve months and after
\* its lump sum; for years >= 1 the returned sequence has years entries and
\* its last entry is summary['final_balance'].
C3_StatePart ==
  /\ Len(balances) = year
  /\ (pc = "year" /\ year >= 1) => balances[year] = balance_with_fees
  /\ (pc = "ret" /\ p.years >= 1) =>
       /\ Len(balances) = p.years
       /\ balances[Len(balances)] = summary.final_balance
C3_StepPart ==
  Len(balances') > Len(balances) =>
    /\ month = MonthsPerYear
    /\ balances' = Append(balances, balance_with_fees + p.annual_lump_sum)
    /\ balance_with_fees' = balance_with_fees + p.annual_lump_sum
C3_YearlyBalances == [](C3_StatePart) /\ [][C3_StepPart]_vars

C3_Witness ==
  /\ pc = "ret"
  /\ p.years >= 2
  /\ p.annual_lump_sum > 0
  /\ Len(balances) = p.years
  /\ balances[1] < balances[2]

\* C4 as stated: for non-negative rates and contributions the yearly balances
\* never decrease.
C4_Original == NonDecreasing(balances)

\* C4 amended: for non-negative rates and contributions and a non-negative
\* net monthly rate, the yearly balances never decrease.
C4_MonotonicWhenNetRateNonNegative ==
  net_monthly_rate >= 0 => NonDecreasing(balances)

C4_Witness ==
  /\ Len(balances) >= 2
  /\ annual_fee_rate > 0
  /\ net_monthly_rate > 0
  /\ balances[2] > balances[1]

\* C5: with annual_fee_rate = 0 the with-fee and the without-fee balance are
\* equal after every month and every year, and the summary has
\* total_fees_paid = 0 and final_balance = final_balance_without_fees.
C5_NoFeeTracksEqual ==
  (annual_fee_rate = 0 /\ pc # "call") =>
    /\ balance_with_fees = balance_without_fees
    /\ balances = nofee_track
    /\ Returned =>
         /\ summary.total_fees_paid = 0
         /\ summary.final_balance = summary.final_balance_without_fees

C5_Witness ==
  /\ pc = "ret"
  /\ call = 1
  /\ annual_fee_rate = 0
  /\ p.annual_interest_rate > 0
  /\ p.years >= 2
  /\ total_employer_contrib > 0
  /\ summary.final_balance > p.initial_investment

\* C6: in every returned summary total_interest_earned = final_balance -
\* total_employee_contributions - total_employer_contributions and
\* total_fees_paid = final_balance_without_fees - final_balance.
SummaryIdentities(s) ==
  /\ s.total_interest_earned =
       s.final_balance - s.total_employee_contributions
         - s.total_employer_contributions
  /\ s.total_fees_paid = s.final_balance_without_fees - s.final_balance
C6_SummaryIdentities ==
  /\ Returned => SummaryIdentities(summary)
  /\ call = 2 => SummaryIdentities(summary_with_fees)

C6_Witness ==
  /\ pc = "ret"
  /\ p.years >= 1
  /\ summary.total_fees_paid > 0
  /\ summary.total_employer_contributions > 0
  /\ summary.total_interest_earned # 0

\* C7: with monthly_contribution = 0, annual_lump_sum = 0 and
\* employer_match_rate = 0 the with-fee balance after k years is
\* initial_investment multiplied 12 * k times by 1 + net_monthly_rate.
C7_ZeroContributionIdentity ==
  (p.monthly_contribution = 0 /\ p.annual_lump_sum = 0
     /\ p.employer_match_rate = 0) =>
    /\ \A k \in 1..Len(balances) :
         balances[k] =
           Compound(p.initial_investment, net_monthly_rate, MonthsPerYear * k)
    /\ (pc = "ret" /\ p.years >= 1) =>
         summary.final_balance =
           Compound(p.initial_investment, net_monthly_rate,
                    MonthsPerYear * p.years)

C7_Witness ==
  /\ pc = "ret"
  /\ p.years >= 2
  /\ p.monthly_contribution = 0
  /\ p.annual_lump_sum = 0
  /\ p.employer_match_rate = 0
  /\ p.initial_investment > 0
  /\ annual_fee_rate > 0
  /\ net_monthly_rate > 0

\* C8: the sequence returned by the second call (fee rate forced to 0) is,
\* year by year, the without-fee track of the first call; its last entry is
\* the first call's final_balance_without_fees, the plotted difference is the
\* first call's total_fees_paid, and both calls add the same contributions.
C8_SecondCallMatchesNoFeeTrack ==
  /\ pc \in {"plot", "done"} =>
       /\ without_fees = first_nofee_track
       /\ Len(without_fees) = Len(with_fees)
       /\ summary_without_fees.total_employee_contributions =
            summary_with_fees.total_employee_contributions
       /\ summary_without_fees.total_employer_contributions =
            summary_with_fees.total_employer_contributions
       /\ p.years >= 1 =>
            without_fees[Len(without_fees)] =
              summary_with_fees.final_balance_without_fees
  /\ outcome = "plotted" => diff = summary_with_fees.total_fees_paid

C8_Witness ==
  /\ pc = "done"
  /\ outcome = "plotted"
  /\ p.years >= 2
  /\ diff > 0
  /\ summary_with_fees.total_employer_contributions > 0
  /\ p.annual_lump_sum > 0

\* C9: total_employee_contributions = years * (12 * monthly_contribution +
\* annual_lump_sum), total_employer_contributions = years * min(12 *
\* potential_match, employer_match_rate * yearly_salary); a month's employer
\* match is min(potential_match, max(remaining, 0)), never negative, and 0
\* once the annual ceiling is reached.
C9_StatePart ==
  /\ employer_match >= 0
  /\ (pc = "ret" /\ p.years >= 1) =>
       /\ total_employee_contrib =
            p.years * (MonthsPerYear * p.monthly_contribution
                         + p.annual_lump_sum)
       /\ total_employer_contrib =
            p.years * Min(MonthsPerYear * Potential, Ceiling)
       /\ summary.total_employee_contributions = total_employee_contrib
       /\ summary.total_employer_contributions = total_employer_contrib
C9_StepPart ==
  month' = month + 1 =>
    /\ employer_match' = Min(Potential, Max(Ceiling - employer_match_accum, 0))
    /\ employer_match_accum >= Ceiling => employer_match' = 0
C9_ContributionTotals == [](C9_StatePart) /\ [][C9_StepPart]_vars

C9_Witness ==
  /\ pc = "ret"
  /\ p.years >= 2
  /\ p.annual_lump_sum > 0
  /\ Ceiling > 0
  /\ Ceiling < MonthsPerYear * Potential
  /\ employer_match = 0
  /\ total_employer_contrib = p.years * Ceiling

\* C10: with a monthly fee rate in [0, 1] the without-fee balance is at least
\* the with-fee balance and both are non-negative after every month and
\* year, so total_fees_paid >= 0 in every returned summary.
C10_FeesNeverNegative ==
  (monthly_fee_rate >= 0 /\ monthly_fee_rate <= RS) =>
    /\ balance_with_fees >= 0
    /\ balance_without_fees >= balance_with_fees
    /\ Returned =>
         /\ summary.total_fees_paid >= 0
         /\ summary.final_balance_without_fees >= summary.final_balance

C10_Witness ==
  /\ pc = "ret"
  /\ p.years >= 1
  /\ monthly_fee_rate > 0
  /\ summary.total_fees_paid > 0
  /\ summary.final_balance > 0

====
